---- MODULE Spec2Model ----
(***************************************************************************)
(* A model of the rmq queue engine (src/queue.go): the store lists of one  *)
(* queue name, the queue instances that connections open on it, their      *)
(* consumption loops and their consumer goroutines.                        *)
(*                                                                         *)
(* Every store command is one atomic step; a goroutine is a record with a  *)
(* program counter and its locals.  Lists are sequences whose index 1 is   *)
(* the LEFT end of the store list: LPUSH prepends, RPOP takes the last.    *)
(* Payloads are small naturals that stand for distinct strings in          *)
(* lexicographic order.  Time is counted in ticks, TicksPerSecond of them  *)
(* to a second, so that time.Time.Unix() truncates as it does in Go.       *)
(***************************************************************************)
EXTENDS Integers, Sequences, FiniteSets, TLC

\* ---------------------------------------------------------------- bounds
NumPayloads == 2
MaxPublish == 3
MaxDelayed == 2
MaxTime == 3
TicksPerSecond == 2
MaxPrefetch == 2
MaxConsumers == 2
MaxBatchSize == 2
MaxPurge == 250

Payloads == 1..NumPayloads
\* the connections that open the queue
Conns == {1, 2}
Slots == 1..MaxConsumers
Times == 0..MaxTime
PrefetchLimits == 0..MaxPrefetch
BatchSizes == 1..MaxBatchSize

\* the chunk of the migration script's rpush loop
migrateChunk == 100

\* the number of items one trim of a purge removes
purgeBatchSize == 100

NIL == [nil |-> TRUE]
NoPayload == 0

VARIABLES
  ready,      \* store list rmq::queue::[q]::ready
  delayed,    \* store sorted set rmq::queue::[q]::delayed: records [member, score]
  unacked,    \* store lists rmq::connection::c::queue::[q]::unacked, one per connection
  now,        \* the wall clock, in ticks
  queue,      \* the redisQueue object of each connection
  loop,       \* the goroutine running consume() for each queue object
  consumer,   \* the consumer goroutines of each queue object
  ret,        \* the most recent call of StartConsuming or StopConsuming and what it returned
  hist,       \* history: counts and call records the properties speak about
  rejected,   \* store list rmq::queue::[q]::rejected
  registry,   \* whether the store set rmq::queues holds the queue's name
  call        \* the call a client thread has in progress on the queue, or made last

vars == <<ready, delayed, unacked, now, queue, loop, consumer, ret, hist,
          rejected, registry, call>>

\* what the consumption loops, the consumers and the publishers leave alone
admin == <<rejected, registry, call>>

\* ------------------------------------------------------- sequence helpers
Min(a, b) == IF a < b THEN a ELSE b

Count(s, v) == Cardinality({i \in DOMAIN s : s[i] = v})

Front(s) == SubSeq(s, 1, Len(s) - 1)

Last(s) == s[Len(s)]

IsPrefix(s, t) == Len(s) <= Len(t) /\ SubSeq(t, 1, Len(s)) = s

\* ------------------------------------------------------------ the store
\* a push that puts v at the right end, where the loop pops
LPushAtPopEnd(list, v) == list \o <<v>>

\* LPUSH key v
LPush(list, v) == <<v>> \o list

\* RPUSH key v1 .. vn
RPush(list, vs) == list \o vs

\* LLEN key
LLen(list) == Len(list)

\* time.Time.Unix(): whole seconds, the sub-second part dropped
Unix(t) == t \div TicksPerSecond

\* the sorted set's order: by score, then by member
ZLess(a, b) == a.score < b.score \/ (a.score = b.score /\ a.member < b.member)

RECURSIVE ZSorted(_)
ZSorted(z) ==
  IF z = {} THEN <<>>
  ELSE LET m == CHOOSE a \in z : \A b \in z \ {a} : ZLess(a, b)
       IN  <<m>> \o ZSorted(z \ {m})

\* a ZADD that keeps the entry the member had
ZAddKeepsEntry(z, score, member) == z \cup {[member |-> member, score |-> score]}

\* ZADD key score member: a member is held once; adding it again moves its score
ZAdd(z, score, member) ==
  {e \in z : e.member # member} \cup {[member |-> member, score |-> score]}

\* a range that leaves out the members whose score equals max
ZRangeByScoreExclusive(z, max) ==
  LET s == SelectSeq(ZSorted(z), LAMBDA e : e.score < max)
  IN  [i \in 1..Len(s) |-> s[i].member]

\* ZRANGEBYSCORE key -inf max: the members with score <= max, in the set's order
ZRangeByScore(z, max) ==
  LET s == SelectSeq(ZSorted(z), LAMBDA e : e.score <= max)
  IN  [i \in 1..Len(s) |-> s[i].member]

\* ZREMRANGEBYRANK key start stop: negative ranks count from the highest score; a
\* range that ends before it starts removes nothing
ZRemRangeByRank(z, start, stop) ==
  LET s == ZSorted(z)
      llen == Len(s)
      from == IF start < 0 THEN (IF llen + start < 0 THEN 0 ELSE llen + start) ELSE start
      to == IF stop < 0 THEN llen + stop ELSE stop
  IN  IF from > to \/ from >= llen THEN z
      ELSE {s[i] : i \in {j \in 1..llen : j - 1 < from \/ j - 1 > to}}

\* the script's loop "for i = 1, #val, 100 do rpush KEYS[2], unpack(val, i, min(i+99, #val))"
RECURSIVE RPushChunks(_, _, _)
RPushChunks(list, val, i) ==
  IF i > Len(val) THEN list
  ELSE RPushChunks(RPush(list, SubSeq(val, i, Min(i + migrateChunk - 1, Len(val)))),
                   val, i + migrateChunk)

\* the migration script, one atomic evaluation: what it leaves in KEYS[1] and KEYS[2]
MigrateScript(from, to, curr) ==
  LET val == ZRangeByScore(from, curr)
  IN  IF val # <<>>
        THEN [from |-> ZRemRangeByRank(from, 0, Len(val) - 1),
              to   |-> RPushChunks(to, val, 1),
              val  |-> val]
        ELSE [from |-> from, to |-> to, val |-> val]

\* LTRIM key start stop: negative indices count from the right end; a range that
\* ends before it starts leaves an empty list
LTrim(list, start, stop) ==
  LET llen == Len(list)
      from == IF start < 0 THEN (IF llen + start < 0 THEN 0 ELSE llen + start) ELSE start
      to == IF stop < 0 THEN llen + stop ELSE stop
  IN  IF from > to \/ from >= llen THEN <<>>
      ELSE SubSeq(list, from + 1, Min(to, llen - 1) + 1)

\* LREM key 1 v: removes the occurrence of v nearest to the left end, if any
LRem(list, v) ==
  IF \E i \in DOMAIN list : list[i] = v
    THEN LET i == CHOOSE j \in DOMAIN list :
                    list[j] = v /\ \A h \in 1..(j - 1) : list[h] # v
         IN  SubSeq(list, 1, i - 1) \o SubSeq(list, i + 1, Len(list))
    ELSE list

\* a move that pops the payload and pushes nothing
RPopLPushLosesPayload(src, dst) ==
  IF src = <<>> THEN [src |-> src, dst |-> dst, err |-> "nil"]
  ELSE [src |-> Front(src), dst |-> dst, err |-> "ok"]

\* RPOPLPUSH src dst: the right end of src goes to the left end of dst; the reply
\* is nil (redis.Nil) when src is empty
RPopLPush(src, dst) ==
  IF src = <<>> THEN [src |-> src, dst |-> dst, err |-> "nil"]
  ELSE [src |-> Front(src), dst |-> LPush(dst, Last(src)), err |-> "ok"]

\* a redisErrIsNil that takes every error for redis.Nil
redisErrIsNilLenient(err) == IF err = "ok" THEN "false" ELSE "true"

\* redisErrIsNil(result): false without an error, true for redis.Nil, and a
\* panic for any other error
redisErrIsNil(err) ==
  CASE err = "ok" -> "false"
    [] err = "nil" -> "true"
    [] OTHER -> "panic"

\* ------------------------------------------------------------ initial state
NoQueue ==
  [deliveryChan |-> NIL, prefetchLimit |-> 0, pollDuration |-> 0,
   consumingStopped |-> FALSE, stopRacing |-> FALSE]

NoLoop ==
  [pc |-> "none", prefetchCount |-> 0, batchSize |-> 0, i |-> 0,
   result |-> NoPayload, afterStop |-> 0, popsAfterStop |-> 0]

NoConsumer ==
  [kind |-> "none", pc |-> "none", batchSize |-> 0, batch |-> <<>>,
   timerActive |-> FALSE, timerC |-> FALSE, resets |-> 0, firedOn |-> <<>>,
   received |-> <<>>, consumed |-> <<>>]

\* no call in progress; removed lists how many items each trim of the call took
\* away, and before is the store as the call found it
NoCall ==
  [op |-> "none", pc |-> "idle", key |-> "none", arg |-> 0, total |-> 0, todo |-> 0,
   count |-> 0, i |-> 0, val |-> 0, ok |-> FALSE, err |-> "ok", removed |-> <<>>,
   before |-> [ready |-> <<>>, rejected |-> <<>>, delayed |-> {}, registry |-> FALSE,
               unacked |-> <<>>]]

Init ==
  /\ ready = <<>>
  /\ delayed = {}
  /\ unacked = [c \in Conns |-> <<>>]
  /\ now = 0
  /\ queue = [c \in Conns |-> NoQueue]
  /\ loop = [c \in Conns |-> NoLoop]
  /\ consumer = [c \in Conns |-> [k \in Slots |-> NoConsumer]]
  /\ ret = [op |-> "none", val |-> FALSE]
  /\ hist = [published |-> [p \in Payloads |-> 0],
             migrated |-> [p \in Payloads |-> 0],
             calls |-> 0,
             order |-> <<>>,
             delayCalls |-> 0,
             merged |-> 0,
             due |-> 0,
             pending |-> <<>>,
             deliveries |-> 0,
             rejectCalls |-> 0,
             started |-> [c \in Conns |-> 0]]
  /\ rejected = <<>>
  \* the connection that opens a queue adds its name to rmq::queues
  /\ registry = TRUE
  /\ call = NoCall

\* a list of n payloads
Fill(n) == [i \in 1..n |-> ((i - 1) % NumPayloads) + 1]

\* a queue nobody consumes, after publishers and rejecting consumers have left
\* up to MaxPurge payloads in one of ready and rejected and at most one in the other
InitPurge ==
  /\ \E n \in 0..MaxPurge, m \in {0, 1} :
       \/ ready = Fill(n) /\ rejected = Fill(m)
       \/ ready = Fill(m) /\ rejected = Fill(n)
  /\ delayed = {}
  /\ unacked = [c \in Conns |-> <<>>]
  /\ now = 0
  /\ queue = [c \in Conns |-> NoQueue]
  /\ loop = [c \in Conns |-> NoLoop]
  /\ consumer = [c \in Conns |-> [k \in Slots |-> NoConsumer]]
  /\ ret = [op |-> "none", val |-> FALSE]
  /\ hist = [published |-> [p \in Payloads |-> 0],
             migrated |-> [p \in Payloads |-> 0],
             calls |-> 0,
             order |-> <<>>,
             delayCalls |-> 0,
             merged |-> 0,
             due |-> 0,
             pending |-> <<>>,
             deliveries |-> 0,
             rejectCalls |-> 0,
             started |-> [c \in Conns |-> 0]]
  /\ registry = TRUE
  /\ call = NoCall

\* ------------------------------------------------------------ publish path
\* Publish(payload): LPUSH onto ready
Publish(payload) ==
  /\ hist.calls < MaxPublish
  /\ ready' = LPush(ready, payload)
  /\ hist' = [hist EXCEPT !.published[payload] = @ + 1, !.calls = @ + 1,
                           !.order = Append(@, payload)]
  /\ UNCHANGED <<delayed, unacked, now, queue, loop, consumer, ret, admin>>

\* PublishOnDelay(payload, delayedAt): ZADD with score delayedAt.Unix()
PublishOnDelay(payload, delayedAt) ==
  /\ hist.delayCalls < MaxDelayed
  /\ delayed' = ZAdd(delayed, Unix(delayedAt), payload)
  /\ hist' = [hist EXCEPT !.delayCalls = @ + 1,
                           !.pending = Append(@, <<payload, delayedAt>>),
                           \* ZADD replies 0 when it finds the member in the set
                           !.merged = IF payload \in {e.member : e \in delayed}
                                        THEN @ + 1 ELSE @,
                           !.due = IF delayedAt > @ THEN delayedAt ELSE @]
  /\ UNCHANGED <<ready, unacked, now, queue, loop, consumer, ret, admin>>

\* the wall clock advances
Tick ==
  /\ now < MaxTime
  /\ now' = now + 1
  /\ UNCHANGED <<ready, delayed, unacked, queue, loop, consumer, ret, hist, admin>>

\* ------------------------------------------------------ start and stop
\* make(chan Delivery, prefetchLimit)
MakeChan(id, cap) == [id |-> id, cap |-> cap, buf |-> <<>>, closed |-> FALSE]

\* a start guard that lets a stopped queue start again
StartConsumingAfterStop(c, prefetchLimit, pollDuration) ==
  IF queue[c].deliveryChan # NIL /\ ~queue[c].consumingStopped
    THEN /\ ret' = [op |-> "StartConsuming", val |-> FALSE]
         /\ UNCHANGED <<ready, delayed, unacked, now, queue, loop, consumer, hist, admin>>
    ELSE /\ queue' = [queue EXCEPT ![c].prefetchLimit = prefetchLimit,
                                   ![c].pollDuration = pollDuration,
                                   ![c].consumingStopped = FALSE,
                                   ![c].deliveryChan =
                                      MakeChan(hist.started[c] + 1, prefetchLimit)]
         /\ loop' = [loop EXCEPT ![c].pc = "migrate"]
         /\ hist' = [hist EXCEPT !.started[c] = @ + 1]
         /\ ret' = [op |-> "StartConsuming", val |-> TRUE]
         /\ UNCHANGED <<ready, delayed, unacked, now, consumer, admin>>

\* StartConsuming(prefetchLimit, pollDuration)
StartConsuming(c, prefetchLimit, pollDuration) ==
  IF queue[c].deliveryChan # NIL
    THEN \* already consuming
         /\ ret' = [op |-> "StartConsuming", val |-> FALSE]
         /\ UNCHANGED <<ready, delayed, unacked, now, queue, loop, consumer, hist, admin>>
    ELSE /\ queue' = [queue EXCEPT ![c].prefetchLimit = prefetchLimit,
                                   ![c].pollDuration = pollDuration,
                                   ![c].deliveryChan =
                                      MakeChan(hist.started[c] + 1, prefetchLimit)]
         \* go queue.consume()
         /\ loop' = [loop EXCEPT ![c].pc = "migrate"]
         /\ hist' = [hist EXCEPT !.started[c] = @ + 1]
         /\ ret' = [op |-> "StartConsuming", val |-> TRUE]
         /\ UNCHANGED <<ready, delayed, unacked, now, consumer, admin>>

\* StopConsuming()
StopConsuming(c) ==
  IF queue[c].deliveryChan = NIL \/ queue[c].consumingStopped
    THEN \* not consuming or already stopped
         /\ ret' = [op |-> "StopConsuming", val |-> FALSE]
         /\ UNCHANGED <<ready, delayed, unacked, now, queue, loop, consumer, hist, admin>>
    ELSE /\ queue' = [queue EXCEPT ![c].consumingStopped = TRUE,
                                   ![c].stopRacing = TRUE]
         /\ ret' = [op |-> "StopConsuming", val |-> TRUE]
         /\ UNCHANGED <<ready, delayed, unacked, now, loop, consumer, hist, admin>>

\* ------------------------------------------------------ consumption loop
\* consume() sleeps pollDuration after a batch that wanted no more; the sleep
\* changes nothing and is the time the loop takes to reach its next step.

\* every step of the loop separates a later read of consumingStopped from
\* an earlier StopConsuming
LoopStep(c) == queue' = [queue EXCEPT ![c].stopRacing = FALSE]

\* consume(): queue.migrateExpiredDeliveries(delayedKey, readyKey, time.Now())
Migrate(c) ==
  /\ loop[c].pc = "migrate"
  /\ LET r == MigrateScript(delayed, ready, Unix(now))
         gone == {r.val[i] : i \in DOMAIN r.val}
     IN  /\ delayed' = r.from
         /\ ready' = r.to
         /\ hist' = [hist EXCEPT
              !.migrated = [p \in Payloads |-> @[p] + Count(r.val, p)],
              !.pending = SelectSeq(@, LAMBDA e : e[1] \notin gone)]
  /\ loop' = [loop EXCEPT ![c].pc = "len",
                          ![c].afterStop =
                             IF queue[c].consumingStopped THEN @ + 1 ELSE @]
  /\ LoopStep(c)
  /\ UNCHANGED <<unacked, now, consumer, ret, admin>>

\* batchSize(): prefetchCount := len(queue.deliveryChan)
ReadLen(c) ==
  /\ loop[c].pc = "len"
  /\ loop' = [loop EXCEPT ![c].pc = "count",
                          ![c].prefetchCount = Len(queue[c].deliveryChan.buf)]
  /\ LoopStep(c)
  /\ UNCHANGED <<ready, delayed, unacked, now, consumer, ret, hist, admin>>

\* a batch size that forgets what the buffer already holds
batchSizeIgnoresBuffer(readyCount, prefetchLimit, prefetchCount) ==
  IF readyCount < prefetchLimit THEN readyCount ELSE prefetchLimit

\* batchSize(): the smaller of ReadyCount() and prefetchLimit - prefetchCount
batchSize(readyCount, prefetchLimit, prefetchCount) ==
  IF readyCount < prefetchLimit - prefetchCount
    THEN readyCount
    ELSE prefetchLimit - prefetchCount

\* batchSize() reads ReadyCount(); consumeBatch(batchSize) returns false at once for 0
ReadCount(c) ==
  /\ loop[c].pc = "count"
  /\ LET n == batchSize(LLen(ready), queue[c].prefetchLimit, loop[c].prefetchCount)
     IN  loop' = [loop EXCEPT ![c].prefetchCount = 0,
                              ![c].batchSize = IF n > 0 THEN n ELSE 0,
                              ![c].i = 0,
                              ![c].pc = IF n = 0 THEN "check"
                                        ELSE IF n > 0 THEN "pop" ELSE "check"]
  /\ LoopStep(c)
  /\ UNCHANGED <<ready, delayed, unacked, now, consumer, ret, hist, admin>>

\* a pop that copies the payload to unacked and leaves it in ready
PopKeepsReady(c) ==
  /\ loop[c].pc = "pop"
  /\ IF ready = <<>>
       THEN /\ loop' = [loop EXCEPT ![c].pc = "check", ![c].batchSize = 0, ![c].i = 0]
            /\ UNCHANGED <<ready, unacked>>
       ELSE /\ ready' = ready
            /\ unacked' = [unacked EXCEPT ![c] = LPush(@, Last(ready))]
            /\ loop' = [loop EXCEPT ![c].pc = "send", ![c].result = Last(ready)]
  /\ LoopStep(c)
  /\ UNCHANGED <<delayed, now, consumer, ret, hist, admin>>

\* consumeBatch: RPOPLPUSH ready unacked; an empty ready list ends the batch
Pop(c) ==
  /\ loop[c].pc = "pop"
  /\ IF ready = <<>>
       THEN /\ loop' = [loop EXCEPT ![c].pc = "check", ![c].batchSize = 0, ![c].i = 0]
            /\ UNCHANGED <<ready, unacked>>
       ELSE /\ ready' = Front(ready)
            /\ unacked' = [unacked EXCEPT ![c] = LPush(@, Last(ready))]
            /\ loop' = [loop EXCEPT ![c].pc = "send",
                                    ![c].result = Last(ready),
                                    ![c].popsAfterStop =
                                       IF queue[c].consumingStopped THEN @ + 1 ELSE @]
  /\ LoopStep(c)
  /\ UNCHANGED <<delayed, now, consumer, ret, hist, admin>>

\* newDelivery(result.Val(), ...)
newDelivery(id, payload) == [id |-> id, payload |-> payload]

\* consumeBatch: queue.deliveryChan <- newDelivery(...); blocks while the buffer is full
Send(c) ==
  /\ loop[c].pc = "send"
  /\ Len(queue[c].deliveryChan.buf) < queue[c].deliveryChan.cap
  /\ queue' = [queue EXCEPT
       ![c].deliveryChan.buf = Append(@, newDelivery(hist.deliveries + 1, loop[c].result)),
       ![c].stopRacing = FALSE]
  /\ hist' = [hist EXCEPT !.deliveries = @ + 1]
  /\ loop' = [loop EXCEPT
       ![c].result = NoPayload,
       ![c].i = IF @ + 1 < loop[c].batchSize THEN @ + 1 ELSE 0,
       ![c].batchSize = IF loop[c].i + 1 < @ THEN @ ELSE 0,
       ![c].pc = IF loop[c].i + 1 < loop[c].batchSize THEN "pop" ELSE "check"]
  /\ UNCHANGED <<ready, delayed, unacked, now, consumer, ret, admin>>

\* a read of consumingStopped that may miss the write for any length of time
ReadStoppedStale(q) == {q.consumingStopped, FALSE}

\* what the loop's unsynchronised read of consumingStopped may return: the
\* written value, or the value before a write that no step of the loop follows
ReadStopped(q) ==
  IF q.consumingStopped /\ q.stopRacing THEN {TRUE, FALSE} ELSE {q.consumingStopped}

\* consume(): if queue.consumingStopped { return }
Check(c) ==
  /\ loop[c].pc = "check"
  /\ \E stopped \in ReadStopped(queue[c]) :
       loop' = [loop EXCEPT ![c].pc = IF stopped THEN "exited" ELSE "migrate"]
  /\ LoopStep(c)
  /\ UNCHANGED <<ready, delayed, unacked, now, consumer, ret, hist, admin>>

\* ------------------------------------------------------------ consumers
\* the goroutine of a new consumer takes the first free slot
FreeSlot(c, k) ==
  /\ consumer[c][k].kind = "none"
  /\ \A j \in Slots : j < k => consumer[c][j].kind # "none"

\* AddConsumer(tag, consumer): go queue.consumerConsume(consumer)
AddConsumer(c, k) ==
  /\ queue[c].deliveryChan # NIL
  /\ FreeSlot(c, k)
  /\ consumer' = [consumer EXCEPT ![c][k].kind = "single",
                                  ![c][k].pc = "recv"]
  /\ UNCHANGED <<ready, delayed, unacked, now, queue, loop, ret, hist, admin>>

\* AddBatchConsumerWithTimeout(tag, batchSize, timeout, consumer):
\* go queue.consumerBatchConsume(...), which begins with time.NewTimer(timeout)
AddBatchConsumer(c, k, size) ==
  /\ queue[c].deliveryChan # NIL
  /\ FreeSlot(c, k)
  /\ consumer' = [consumer EXCEPT ![c][k].kind = "batch",
                                  ![c][k].batchSize = size,
                                  ![c][k].timerActive = TRUE,
                                  ![c][k].pc = "stopTimer"]
  /\ UNCHANGED <<ready, delayed, unacked, now, queue, loop, ret, hist, admin>>

\* a receive that leaves the delivery in the buffer
ChanRecvKeepsHead(ch) == ch

\* a receive from the buffer takes its oldest delivery
ChanRecv(ch) == [ch EXCEPT !.buf = Tail(@)]

\* consumerConsume: for delivery := range queue.deliveryChan
Recv(c, k) ==
  /\ consumer[c][k].kind = "single"
  /\ consumer[c][k].pc = "recv"
  /\ queue[c].deliveryChan.buf # <<>>
  /\ consumer' = [consumer EXCEPT
       ![c][k].pc = "consume",
       ![c][k].batch = <<Head(queue[c].deliveryChan.buf)>>,
       ![c][k].received = Append(@, Head(queue[c].deliveryChan.buf))]
  /\ queue' = [queue EXCEPT ![c].deliveryChan = ChanRecv(@)]
  /\ UNCHANGED <<ready, delayed, unacked, now, loop, ret, hist, admin>>

\* the range loop ends when the buffer is closed and drained
RecvClosed(c, k) ==
  /\ consumer[c][k].kind \in {"single", "batch"}
  /\ consumer[c][k].pc \in {"recv", "select"}
  /\ queue[c].deliveryChan.closed
  /\ queue[c].deliveryChan.buf = <<>>
  /\ consumer' = [consumer EXCEPT ![c][k].pc = "done"]
  /\ UNCHANGED <<ready, delayed, unacked, now, queue, loop, ret, hist, admin>>

\* consumerConsume: consumer.Consume(delivery) returns
Consume(c, k) ==
  /\ consumer[c][k].kind = "single"
  /\ consumer[c][k].pc = "consume"
  /\ consumer' = [consumer EXCEPT
       ![c][k].pc = "recv",
       ![c][k].consumed = @ \o consumer[c][k].batch,
       ![c][k].batch = <<>>]
  /\ UNCHANGED <<ready, delayed, unacked, now, queue, loop, ret, hist, admin>>

\* the runtime fires an active timer: it stops being active and its channel,
\* of capacity 1, takes the signal
TimerFire(c, k) ==
  /\ consumer[c][k].timerActive
  /\ consumer' = [consumer EXCEPT
       ![c][k].timerActive = FALSE,
       ![c][k].timerC = TRUE,
       ![c][k].firedOn = consumer[c][k].batch]
  /\ UNCHANGED <<ready, delayed, unacked, now, queue, loop, ret, hist, admin>>

\* a stopTimer that stops the timer and leaves a fired signal in timer.C
stopTimerNoDrain(t) == [t EXCEPT !.timerActive = FALSE]

\* stopTimer(timer): timer.Stop(), and when that fails a non-blocking drain of timer.C
stopTimer(t) ==
  IF t.timerActive THEN [t EXCEPT !.timerActive = FALSE]
                   ELSE [t EXCEPT !.timerC = FALSE]

\* consumerBatchConsume: stopTimer(timer), before the loop and after every flush
StopTimer(c, k) ==
  /\ consumer[c][k].kind = "batch"
  /\ consumer[c][k].pc = "stopTimer"
  /\ consumer' = [consumer EXCEPT ![c][k] = [stopTimer(@) EXCEPT !.pc = "select"]]
  /\ UNCHANGED <<ready, delayed, unacked, now, queue, loop, ret, hist, admin>>

\* consumerBatchConsume: case <-timer.C
SelectTimer(c, k) ==
  /\ consumer[c][k].kind = "batch"
  /\ consumer[c][k].pc = "select"
  /\ consumer[c][k].timerC
  /\ consumer' = [consumer EXCEPT ![c][k].timerC = FALSE, ![c][k].pc = "consume"]
  /\ UNCHANGED <<ready, delayed, unacked, now, queue, loop, ret, hist, admin>>

\* a batch body that resets the timer on every delivery
batchAddRearms(t, delivery) ==
  LET batch == Append(t.batch, delivery)
  IN  [t EXCEPT !.batch = batch,
                !.received = Append(@, delivery),
                !.timerActive = TRUE,
                !.resets = @ + 1,
                !.pc = IF Len(batch) < t.batchSize THEN "select" ELSE "consume"]

\* the body of case delivery, ok := <-queue.deliveryChan with ok true
batchAdd(t, delivery) ==
  LET batch == Append(t.batch, delivery)
      first == Len(batch) = 1
  IN  [t EXCEPT !.batch = batch,
                !.received = Append(@, delivery),
                \* timer.Reset(timeout) on the first delivery
                !.timerActive = IF first THEN TRUE ELSE @,
                !.resets = IF first THEN @ + 1 ELSE @,
                \* continue while len(batch) < batchSize
                !.pc = IF Len(batch) < t.batchSize THEN "select" ELSE "consume"]

\* consumerBatchConsume: case delivery, ok := <-queue.deliveryChan
SelectDelivery(c, k) ==
  /\ consumer[c][k].kind = "batch"
  /\ consumer[c][k].pc = "select"
  /\ queue[c].deliveryChan.buf # <<>>
  /\ consumer' = [consumer EXCEPT
       ![c][k] = batchAdd(@, Head(queue[c].deliveryChan.buf))]
  /\ queue' = [queue EXCEPT ![c].deliveryChan = ChanRecv(@)]
  /\ UNCHANGED <<ready, delayed, unacked, now, loop, ret, hist, admin>>

\* a flush that forgets to reset the batch
ConsumeBatchKeepsBatch(c, k) ==
  /\ consumer[c][k].kind = "batch"
  /\ consumer[c][k].pc = "consume"
  /\ consumer' = [consumer EXCEPT
       ![c][k].pc = "stopTimer",
       ![c][k].consumed = @ \o consumer[c][k].batch,
       ![c][k].resets = 0,
       ![c][k].firedOn = <<>>]
  /\ UNCHANGED <<ready, delayed, unacked, now, queue, loop, ret, hist, admin>>

\* consumerBatchConsume: consumer.Consume(batch) returns; batch = batch[:0]
ConsumeBatch(c, k) ==
  /\ consumer[c][k].kind = "batch"
  /\ consumer[c][k].pc = "consume"
  /\ consumer' = [consumer EXCEPT
       ![c][k].pc = "stopTimer",
       ![c][k].consumed = @ \o consumer[c][k].batch,
       ![c][k].batch = <<>>,
       ![c][k].resets = 0,
       ![c][k].firedOn = <<>>]
  /\ UNCHANGED <<ready, delayed, unacked, now, queue, loop, ret, hist, admin>>

\* ------------------------------------------------------ acking consumers
\* Delivery.Ack(): removes one occurrence of the payload from the unacked list
Ack(list, delivery) == LRem(list, delivery.payload)

\* a callback acks every delivery of its batch
RECURSIVE AckAll(_, _)
AckAll(list, batch) ==
  IF batch = <<>> THEN list ELSE AckAll(Ack(list, Head(batch)), Tail(batch))

\* consumerConsume: consumer.Consume(delivery) acks the delivery and returns
ConsumeAck(c, k) ==
  /\ consumer[c][k].kind = "single"
  /\ consumer[c][k].pc = "consume"
  /\ unacked' = [unacked EXCEPT ![c] = AckAll(@, consumer[c][k].batch)]
  /\ consumer' = [consumer EXCEPT
       ![c][k].pc = "recv",
       ![c][k].consumed = @ \o consumer[c][k].batch,
       ![c][k].batch = <<>>]
  /\ UNCHANGED <<ready, delayed, now, queue, loop, ret, hist, admin>>

\* consumerBatchConsume: consumer.Consume(batch) acks every delivery of the batch
\* and returns; batch = batch[:0]
ConsumeBatchAck(c, k) ==
  /\ consumer[c][k].kind = "batch"
  /\ consumer[c][k].pc = "consume"
  /\ unacked' = [unacked EXCEPT ![c] = AckAll(@, consumer[c][k].batch)]
  /\ consumer' = [consumer EXCEPT
       ![c][k].pc = "stopTimer",
       ![c][k].consumed = @ \o consumer[c][k].batch,
       ![c][k].batch = <<>>,
       ![c][k].resets = 0,
       ![c][k].firedOn = <<>>]
  /\ UNCHANGED <<ready, delayed, now, queue, loop, ret, hist, admin>>

\* ------------------------------------------------- purge, return and close
\* A client thread makes these calls one after the other: a call begins when
\* the one before it has returned.
Idle == call.pc \in {"idle", "returned"}

\* a call begins: it finds the store as it is now
Enter(op, key, arg) ==
  [NoCall EXCEPT !.op = op, !.key = key, !.arg = arg,
                 !.before = [ready |-> ready, rejected |-> rejected,
                             delayed |-> delayed, registry |-> registry,
                             unacked |-> unacked[1]]]

\* the call returns an int
Return(cl, val) == [cl EXCEPT !.pc = "returned", !.val = val]

\* the list a key of the queue names
ListAt(key) == IF key = "ready" THEN ready ELSE rejected

\* PublishRejected(payload): LPUSH onto rejected, then LREM unacked 1 payload
PublishRejected(c, payload) ==
  /\ hist.rejectCalls < MaxPublish
  /\ rejected' = LPush(rejected, payload)
  /\ unacked' = [unacked EXCEPT ![c] = LRem(@, payload)]
  /\ hist' = [hist EXCEPT !.rejectCalls = @ + 1]
  /\ UNCHANGED <<ready, delayed, now, queue, loop, consumer, ret, registry, call>>

\* deleteRedisList has returned total: Close goes on with its next command, a
\* purge returns total to the caller
Deleted(cl, total) ==
  IF cl.op = "Close"
    THEN IF cl.key = "rejected" THEN [cl EXCEPT !.key = "ready", !.pc = "llen"]
                                ELSE [cl EXCEPT !.pc = "srem"]
    ELSE Return(cl, total)

\* deleteRedisList(key): total := LLEN key; 0 returns at once
deleteRedisList(cl) ==
  LET total == LLen(ListAt(cl.key))
  IN  IF total = 0 THEN Deleted(cl, 0)
      ELSE [cl EXCEPT !.pc = "trim", !.total = total, !.todo = total]

\* PurgeReady(): deleteRedisList(readyKey)
PurgeReady ==
  /\ Idle
  /\ call' = deleteRedisList(Enter("PurgeReady", "ready", 0))
  /\ UNCHANGED <<ready, delayed, unacked, now, queue, loop, consumer, ret, hist,
                 rejected, registry>>

\* PurgeRejected(): deleteRedisList(rejectedKey)
PurgeRejected ==
  /\ Idle
  /\ call' = deleteRedisList(Enter("PurgeRejected", "rejected", 0))
  /\ UNCHANGED <<ready, delayed, unacked, now, queue, loop, consumer, ret, hist,
                 rejected, registry>>

\* a trim that removes one item less than the batch
TrimOneLess(list, batch) == LTrim(list, 0, 0 - batch)

\* deleteRedisList: LTRIM key 0 (-1 - batchSize)
Trim(list, batch) == LTrim(list, 0, -1 - batch)

\* deleteRedisList: one turn of the loop "for todo := total; todo > 0; todo -= purgeBatchSize"
TrimStep ==
  /\ call.pc = "trim"
  /\ LET batch == Min(purgeBatchSize, call.todo)
         list == Trim(ListAt(call.key), batch)
         removed == Len(ListAt(call.key)) - Len(list)
         todo == call.todo - purgeBatchSize
         cl == [call EXCEPT !.todo = todo, !.removed = Append(@, removed)]
     IN  /\ IF call.key = "ready"
              THEN ready' = list /\ rejected' = rejected
              ELSE rejected' = list /\ ready' = ready
         /\ call' = IF todo > 0 THEN cl ELSE Deleted(cl, call.total)
  /\ UNCHANGED <<delayed, unacked, now, queue, loop, consumer, ret, hist, registry>>

\* Close(): queue.PurgeRejected() begins
Close ==
  /\ Idle
  /\ call' = deleteRedisList(Enter("Close", "rejected", 0))
  /\ UNCHANGED <<ready, delayed, unacked, now, queue, loop, consumer, ret, hist,
                 rejected, registry>>

\* Close(): queue.PurgeReady() begins, after PurgeRejected
CloseReady ==
  /\ call.op = "Close"
  /\ call.pc = "llen"
  /\ call' = deleteRedisList(call)
  /\ UNCHANGED <<ready, delayed, unacked, now, queue, loop, consumer, ret, hist,
                 rejected, registry>>

\* Close(): SREM rmq::queues name; true when the name was a member
CloseSRem ==
  /\ call.op = "Close"
  /\ call.pc = "srem"
  /\ registry' = FALSE
  /\ call' = [call EXCEPT !.pc = "returned", !.ok = registry]
  /\ UNCHANGED <<ready, delayed, unacked, now, queue, loop, consumer, ret, hist,
                 rejected>>

\* ZCOUNT key -inf +inf as deleteRedisSortedSet reads it: the reply for the
\* sorted set; for a key that holds a list the store answers with an error, and
\* for a key that holds nothing with 0: Val() is 0 in both cases
ZCountAt(key) == IF key = "delayed" THEN Cardinality(delayed) ELSE 0

\* deleteRedisSortedSet: the loop of ZREMRANGEBYRANK key 0 (-1 - batchSize)
RECURSIVE SortedSetTrims(_, _)
SortedSetTrims(z, todo) ==
  IF todo > 0
    THEN SortedSetTrims(ZRemRangeByRank(z, 0, -1 - Min(purgeBatchSize, todo)),
                        todo - purgeBatchSize)
    ELSE z

\* deleteRedisSortedSet(key): what it leaves in the delayed set and what it returns
deleteRedisSortedSet(key) ==
  LET total == ZCountAt(key)
  IN  IF total = 0 THEN [delayed |-> delayed, total |-> 0]
      ELSE [delayed |-> IF key = "delayed" THEN SortedSetTrims(delayed, total)
                                           ELSE delayed,
            total |-> total]

\* PurgeDelayed(): deleteRedisSortedSet(queue.rejectedKey)
PurgeDelayed ==
  /\ Idle
  /\ LET r == deleteRedisSortedSet("rejected")
     IN  /\ delayed' = r.delayed
         /\ call' = Return(Enter("PurgeDelayed", "rejected", 0), r.total)
  /\ UNCHANGED <<ready, unacked, now, queue, loop, consumer, ret, hist,
                 rejected, registry>>

\* ReturnRejected(count) begins: 0 returns 0, and a count the loop condition
\* i < count rejects at i = 0 returns count
returnRejected(cl, count) ==
  IF count = 0 THEN Return(cl, 0)
  ELSE IF 0 < count THEN [cl EXCEPT !.pc = "move", !.count = count, !.i = 0]
  ELSE Return(cl, count)

\* ReturnRejected(count)
ReturnRejected(count) ==
  /\ Idle
  /\ call' = returnRejected(Enter("ReturnRejected", "rejected", count), count)
  /\ UNCHANGED <<ready, delayed, unacked, now, queue, loop, consumer, ret, hist,
                 rejected, registry>>

\* ReturnAllRejected(): rejectedCount := LLEN rejected; ReturnRejected(rejectedCount)
ReturnAllRejected ==
  /\ Idle
  /\ call' = returnRejected(Enter("ReturnAllRejected", "rejected", 0), LLen(rejected))
  /\ UNCHANGED <<ready, delayed, unacked, now, queue, loop, consumer, ret, hist,
                 rejected, registry>>

\* ReturnRejected: one turn of the loop, RPOPLPUSH rejected ready; a nil reply
\* returns i
Move ==
  /\ call.pc = "move"
  /\ LET r == RPopLPush(rejected, ready)
     IN  IF redisErrIsNil(r.err) = "true"
           THEN /\ call' = Return(call, call.i)
                /\ UNCHANGED <<ready, rejected>>
           ELSE /\ rejected' = r.src
                /\ ready' = r.dst
                /\ call' = IF call.i + 1 < call.count
                             THEN [call EXCEPT !.i = @ + 1]
                             ELSE Return([call EXCEPT !.i = @ + 1], call.count)
  /\ UNCHANGED <<delayed, unacked, now, queue, loop, consumer, ret, hist, registry>>

\* ------------------------------------------------------ store replies
\* what Err() of a store command's result can be: nil ("ok"), redis.Nil ("nil")
\* or another error ("err"); a command that fails changes nothing in the store
Replies == {"ok", "nil", "err"}

\* a count accessor: if redisErrIsNil(result) { return 0 }; return int(result.Val())
countReply(cl, err, n) ==
  LET isNil == redisErrIsNil(err)
  IN  IF isNil = "panic" THEN [cl EXCEPT !.pc = "panic", !.err = err]
      ELSE IF isNil = "true" THEN [Return(cl, 0) EXCEPT !.err = err]
      ELSE [Return(cl, n) EXCEPT !.err = err]

\* ReadyCount(), the store replying err to LLEN ready
ReadyCount(err) ==
  /\ Idle
  /\ call' = countReply(Enter("ReadyCount", "ready", 0), err, LLen(ready))
  /\ UNCHANGED <<ready, delayed, unacked, now, queue, loop, consumer, ret, hist,
                 rejected, registry>>

\* UnackedCount(), the store replying err to LLEN unacked
UnackedCount(c, err) ==
  /\ Idle
  /\ call' = countReply(Enter("UnackedCount", "unacked", 0), err, LLen(unacked[c]))
  /\ UNCHANGED <<ready, delayed, unacked, now, queue, loop, consumer, ret, hist,
                 rejected, registry>>

\* RejectedCount(), the store replying err to LLEN rejected
RejectedCount(err) ==
  /\ Idle
  /\ call' = countReply(Enter("RejectedCount", "rejected", 0), err, LLen(rejected))
  /\ UNCHANGED <<ready, delayed, unacked, now, queue, loop, consumer, ret, hist,
                 rejected, registry>>

\* DelayedCount(), the store replying err to ZCOUNT delayed -inf +inf
DelayedCount(err) ==
  /\ Idle
  /\ call' = countReply(Enter("DelayedCount", "delayed", 0), err, Cardinality(delayed))
  /\ UNCHANGED <<ready, delayed, unacked, now, queue, loop, consumer, ret, hist,
                 rejected, registry>>

\* a Publish that returns redisErrIsNil(...) without the negation
PublishReplyNotNegated(payload, err) ==
  /\ Idle
  /\ hist.calls < MaxPublish
  /\ LET isNil == redisErrIsNil(err)
         cl == [Enter("Publish", "ready", payload) EXCEPT !.err = err]
     IN  /\ call' = IF isNil = "panic" THEN [cl EXCEPT !.pc = "panic"]
                    ELSE [cl EXCEPT !.pc = "returned", !.ok = (isNil = "true")]
         /\ IF err = "ok"
              THEN /\ ready' = LPush(ready, payload)
                   /\ hist' = [hist EXCEPT !.published[payload] = @ + 1,
                                            !.calls = @ + 1,
                                            !.order = Append(@, payload)]
              ELSE UNCHANGED <<ready, hist>>
  /\ UNCHANGED <<delayed, unacked, now, queue, loop, consumer, ret, rejected, registry>>

\* Publish(payload), the store replying err to LPUSH ready payload: it returns
\* !redisErrIsNil(...)
PublishReply(payload, err) ==
  /\ Idle
  /\ hist.calls < MaxPublish
  /\ LET isNil == redisErrIsNil(err)
         cl == [Enter("Publish", "ready", payload) EXCEPT !.err = err]
     IN  /\ call' = IF isNil = "panic" THEN [cl EXCEPT !.pc = "panic"]
                    ELSE [cl EXCEPT !.pc = "returned", !.ok = ~(isNil = "true")]
         /\ IF err = "ok"
              THEN /\ ready' = LPush(ready, payload)
                   /\ hist' = [hist EXCEPT !.published[payload] = @ + 1,
                                            !.calls = @ + 1,
                                            !.order = Append(@, payload)]
              ELSE UNCHANGED <<ready, hist>>
  /\ UNCHANGED <<delayed, unacked, now, queue, loop, consumer, ret, rejected, registry>>

\* ------------------------------------------------------------ specification
\* producers
Producers ==
  \/ \E p \in Payloads : Publish(p)
  \/ \E p \in Payloads, t \in Times : PublishOnDelay(p, t)
  \/ Tick

\* the calls that start and stop consumption on the connections C
Control(C) ==
  \/ \E c \in C, n \in PrefetchLimits : StartConsuming(c, n, n + 1)
  \/ \E c \in C : StopConsuming(c)

\* the consumption loops of the connections C
Loops(C) ==
  \/ \E c \in C : Migrate(c)
  \/ \E c \in C : ReadLen(c)
  \/ \E c \in C : ReadCount(c)
  \/ \E c \in C : Pop(c)
  \/ \E c \in C : Send(c)
  \/ \E c \in C : Check(c)

\* single-delivery consumers
Singles(C, K) ==
  \/ \E c \in C, k \in K : AddConsumer(c, k)
  \/ \E c \in C, k \in K : Recv(c, k)
  \/ \E c \in C, k \in K : Consume(c, k)

\* batch consumers
Batches(C, K) ==
  \/ \E c \in C, k \in K, n \in BatchSizes : AddBatchConsumer(c, k, n)
  \/ \E c \in C, k \in K : TimerFire(c, k)
  \/ \E c \in C, k \in K : StopTimer(c, k)
  \/ \E c \in C, k \in K : SelectTimer(c, k)
  \/ \E c \in C, k \in K : SelectDelivery(c, k)
  \/ \E c \in C, k \in K : ConsumeBatch(c, k)

\* one connection that starts and stops consuming, with a single-delivery consumer
Next ==
  \/ \E p \in Payloads : Publish(p)
  \/ Control({1})
  \/ Loops({1})
  \/ Singles({1}, {1})

Spec == Init /\ [][Next]_vars

\* one connection consuming a queue that takes delayed publishes
NextDelay ==
  \/ Producers
  \/ \E n \in PrefetchLimits : StartConsuming(1, n, n + 1)
  \/ Loops({1})

SpecDelay == Init /\ [][NextDelay]_vars

\* one connection that never stops consuming, with single-delivery consumers
NextOne ==
  \/ \E p \in Payloads : Publish(p)
  \/ \E n \in PrefetchLimits : StartConsuming(1, n, n + 1)
  \/ Loops({1})
  \/ Singles({1}, Slots)

SpecOne == Init /\ [][NextOne]_vars

\* the Go scheduler runs every goroutine that can step
FairOne ==
  /\ SpecOne
  /\ WF_vars(Loops({1}))
  /\ \A k \in Slots : WF_vars(Recv(1, k) \/ Consume(1, k))

\* two connections consuming the queue, which takes MaxPublish payloads in all,
\* some of them delayed, due at once or later
NextTwo ==
  \/ \E p \in Payloads : hist.calls + hist.delayCalls < MaxPublish /\ Publish(p)
  \/ \E p \in Payloads, t \in {0, MaxTime} :
       hist.calls + hist.delayCalls < MaxPublish /\ PublishOnDelay(p, t)
  \/ \E c \in Conns, n \in PrefetchLimits : StartConsuming(c, n, n + 1)
  \/ Loops(Conns)

SpecTwo == Init /\ [][NextTwo]_vars

\* one connection with a batch consumer
NextBatch ==
  \/ \E p \in Payloads : Publish(p)
  \/ Control({1})
  \/ Loops({1})
  \/ Batches({1}, {1})

SpecBatch == Init /\ [][NextBatch]_vars

\* the Go scheduler runs every goroutine that can step, and the runtime fires
\* every timer that stays active
BatchGoroutine(c, k) ==
  StopTimer(c, k) \/ SelectTimer(c, k) \/ SelectDelivery(c, k) \/ ConsumeBatch(c, k)

FairBatch ==
  /\ SpecBatch
  /\ WF_vars(Loops({1}))
  /\ WF_vars(TimerFire(1, 1))
  /\ WF_vars(BatchGoroutine(1, 1))

\* one connection with one single-delivery consumer on a queue that takes
\* MaxPublish payloads in all, some of them delayed and due at once
NextOrder ==
  \/ \E p \in Payloads : hist.calls + hist.delayCalls < MaxPublish /\ Publish(p)
  \/ \E p \in Payloads : hist.calls + hist.delayCalls < MaxPublish /\ PublishOnDelay(p, 0)
  \/ \E n \in PrefetchLimits : StartConsuming(1, n, n + 1)
  \/ Loops({1})
  \/ Singles({1}, {1})

SpecOrder == Init /\ [][NextOrder]_vars

\* the counts a client passes to ReturnRejected
Counts == (0 - 1)..(MaxPublish + 1)

\* the client has made no purge, return or close call yet
Fresh == call.op = "none"

\* one client thread on a queue nobody consumes: it fills the queue with
\* MaxPublish payloads in all, then purges, returns and closes, call after call
NextAdmin ==
  \/ \E p \in Payloads :
       Fresh /\ hist.calls + hist.delayCalls + hist.rejectCalls < MaxPublish /\ Publish(p)
  \/ \E p \in Payloads :
       /\ Fresh /\ hist.calls + hist.delayCalls + hist.rejectCalls < MaxPublish
       /\ PublishOnDelay(p, 0)
  \/ \E p \in Payloads :
       /\ Fresh /\ hist.calls + hist.delayCalls + hist.rejectCalls < MaxPublish
       /\ PublishRejected(1, p)
  \/ PurgeReady
  \/ PurgeRejected
  \/ PurgeDelayed
  \/ TrimStep
  \/ Close
  \/ CloseReady
  \/ CloseSRem
  \/ \E count \in Counts : ReturnRejected(count)
  \/ ReturnAllRejected
  \/ Move

SpecAdmin == Init /\ [][NextAdmin]_vars

\* one client thread that purges the ready and rejected lists of a filled queue
NextPurge ==
  \/ PurgeReady
  \/ PurgeRejected
  \/ TrimStep

SpecPurge == InitPurge /\ [][NextPurge]_vars

\* the count accessors
CountOps == {"ReadyCount", "UnackedCount", "RejectedCount", "DelayedCount"}

\* the client has called nothing but count accessors
Monitoring == call.op \in CountOps \cup {"none"}

\* a queue that takes MaxPublish payloads in all and that one connection
\* consumes, then one client thread whose store commands can fail: it reads the
\* counts, call after call, or makes a Publish; a panic ends the process
NextErr ==
  \/ \E p \in Payloads :
       Fresh /\ hist.calls + hist.delayCalls + hist.rejectCalls < MaxPublish /\ Publish(p)
  \/ \E p \in Payloads :
       /\ Fresh /\ hist.calls + hist.delayCalls + hist.rejectCalls < MaxPublish
       /\ PublishOnDelay(p, MaxTime)
  \/ \E p \in Payloads :
       /\ Fresh /\ hist.calls + hist.delayCalls + hist.rejectCalls < MaxPublish
       /\ PublishRejected(1, p)
  \/ Fresh /\ StartConsuming(1, MaxPrefetch, MaxPrefetch + 1)
  \/ Fresh /\ Loops({1})
  \/ \E p \in Payloads, e \in Replies : Fresh /\ PublishReply(p, e)
  \/ \E e \in Replies : Monitoring /\ ReadyCount(e)
  \/ \E e \in Replies : Monitoring /\ UnackedCount(1, e)
  \/ \E e \in Replies : Monitoring /\ RejectedCount(e)
  \/ \E e \in Replies : Monitoring /\ DelayedCount(e)

SpecErr == Init /\ [][NextErr]_vars

\* one connection with a consumer of either kind whose callback acks what it
\* is handed
NextAck ==
  \/ \E p \in Payloads : Publish(p)
  \/ \E n \in PrefetchLimits : StartConsuming(1, n, n + 1)
  \/ Loops({1})
  \/ AddConsumer(1, 1)
  \/ Recv(1, 1)
  \/ ConsumeAck(1, 1)
  \/ \E n \in BatchSizes : AddBatchConsumer(1, 1, n)
  \/ TimerFire(1, 1)
  \/ StopTimer(1, 1)
  \/ SelectTimer(1, 1)
  \/ SelectDelivery(1, 1)
  \/ ConsumeBatchAck(1, 1)

SpecAck == Init /\ [][NextAck]_vars

\* ------------------------------------------------------------ properties
BatchConsumers == {ck \in Conns \X Slots : consumer[ck[1]][ck[2]].kind = "batch"}

Ids(s) == {s[i].id : i \in DOMAIN s}

\* the deliveries a batch consumer has passed to its callback, in invocation order,
\* the batch of a callback in progress included
Flushed(t) == t.consumed \o (IF t.pc = "consume" THEN t.batch ELSE <<>>)

\* C3: every invocation of the batch callback receives at least 1 and at most
\* batchSize deliveries, and after a flush has stopped and drained the timer no
\* signal is left for an empty batch.
C3_BatchSizeWithinBounds ==
  \A ck \in BatchConsumers :
    LET t == consumer[ck[1]][ck[2]]
    IN  /\ t.pc = "consume" => Len(t.batch) >= 1 /\ Len(t.batch) <= t.batchSize
        /\ t.pc = "select" /\ t.batch = <<>> => ~t.timerActive /\ ~t.timerC

\* a flush by size is in progress and the timer of that batch has fired meanwhile
C3_Witness ==
  \E ck \in BatchConsumers :
    LET t == consumer[ck[1]][ck[2]]
    IN  t.pc = "consume" /\ Len(t.batch) = t.batchSize /\ t.batchSize > 1 /\ t.timerC

\* C4: each delivery a batch consumer received is in at most one batch, and the
\* batches, concatenated in invocation order, are a prefix of what it received.
C4_BatchesArePrefixOfReceived ==
  \A ck \in BatchConsumers :
    LET t == consumer[ck[1]][ck[2]]
    IN  /\ IsPrefix(Flushed(t), t.received)
        /\ Cardinality(Ids(Flushed(t))) = Len(Flushed(t))

\* a second batch is being flushed after a first one
C4_Witness ==
  \E ck \in BatchConsumers :
    LET t == consumer[ck[1]][ck[2]]
    IN  t.pc = "consume" /\ t.consumed # <<>> /\ t.batchSize > 1

\* the timer state of a batch consumer that waits in its select: armed (running,
\* or fired with the signal not yet taken) exactly while the batch is not empty,
\* and reset once per batch
TimerFollowsBatch(t) ==
  t.pc = "select" =>
    /\ (t.batch # <<>>) = (t.timerActive \/ t.timerC)
    /\ t.resets = (IF t.batch = <<>> THEN 0 ELSE 1)

\* a callback that the timer signal started: a partial batch, not empty, that
\* begins with the deliveries the batch held when the timer fired
TimerFlushIsPartialBatch(t) ==
  t.pc = "consume" /\ Len(t.batch) < t.batchSize =>
    /\ Len(t.batch) >= 1
    /\ t.firedOn # <<>>
    /\ IsPrefix(t.firedOn, t.batch)
    /\ ~t.timerActive /\ ~t.timerC

SingleConsumers == {ck \in Conns \X Slots : consumer[ck[1]][ck[2]].kind = "single"}

Payload(s) == [i \in DOMAIN s |-> s[i].payload]

\* the sum of a sequence of numbers
RECURSIVE Sum(_)
Sum(s) == IF s = <<>> THEN 0 ELSE Head(s) + Sum(Tail(s))

\* how many times payload v has been passed to a callback of connection c
ConsumedCount(c, v) ==
  Sum([k \in Slots |-> Count(Payload(consumer[c][k].consumed), v)])

\* how many deliveries the consumers of connection c have received, and their ids
ReceivedCount(c) == Sum([k \in Slots |-> Len(consumer[c][k].received)])

ReceivedIds(c) == UNION {Ids(consumer[c][k].received) : k \in Slots}

\* no delivery is received by two consumers or twice by one, a consumer's
\* callback has seen what it received in that order, and no payload value has
\* been passed to callbacks more often than it was published
DeliveredAtMostOnce(c) ==
  /\ Cardinality(ReceivedIds(c)) = ReceivedCount(c)
  /\ \A k \in Slots : consumer[c][k].consumed \o consumer[c][k].batch = consumer[c][k].received
  /\ \A v \in Payloads : ConsumedCount(c, v) <= hist.published[v]

\* C1 as stated: with a single-delivery consumer attached (which needs
\* consumption started) every published occurrence is eventually passed to a
\* callback, and none is passed twice.
C1_EveryPublishDelivered ==
  /\ []DeliveredAtMostOnce(1)
  /\ \A v \in Payloads, n \in 1..MaxPublish :
       (hist.published[v] >= n /\ SingleConsumers # {}) ~> (ConsumedCount(1, v) >= n)

\* C1 (amended): the same for a queue started with prefetchLimit >= 1.
C1_EveryPublishDeliveredWithPrefetch ==
  /\ []DeliveredAtMostOnce(1)
  /\ \A v \in Payloads, n \in 1..MaxPublish :
       (hist.published[v] >= n /\ SingleConsumers # {} /\ queue[1].prefetchLimit >= 1)
         ~> (ConsumedCount(1, v) >= n)

\* two consumers have each been passed an occurrence of the same payload value,
\* and everything published has been passed to a callback
C1_Witness ==
  /\ hist.calls = MaxPublish
  /\ \A v \in Payloads : ConsumedCount(1, v) = hist.published[v]
  /\ \E v \in Payloads :
       /\ Count(Payload(consumer[1][1].consumed), v) >= 1
       /\ Count(Payload(consumer[1][2].consumed), v) >= 1

\* ---------------------------------------------------- two consuming loops
\* how many occurrences of payload v the lists hold
InReadyAndUnacked(v) ==
  Count(ready, v) + Sum([c \in Conns |-> Count(unacked[c], v)])

InDelayed(v) == Cardinality({e \in delayed : e.member = v})

\* a step of the consumption loop of connection c
LoopMoved(c) == loop[c].pc # "none" /\ loop'[c] # loop[c]

\* every payload in the unacked list of c is wrapped in one Delivery of the
\* buffer of c, or is the one the loop is about to wrap (no consumer runs here)
UnackedMatchesDeliveries(c) ==
  queue[c].deliveryChan # NIL =>
    \A v \in Payloads :
      Count(unacked[c], v) =
        Count(Payload(queue[c].deliveryChan.buf), v)
          + (IF loop[c].pc = "send" /\ loop[c].result = v THEN 1 ELSE 0)

BufferedIds == UNION {IF queue[c].deliveryChan = NIL THEN {}
                      ELSE Ids(queue[c].deliveryChan.buf) : c \in Conns}

\* C2 as stated: no step of a consumption loop changes, for any payload value,
\* the number of occurrences in ready and the unacked lists together.
C2_LoopsKeepReadyAndUnacked ==
  [][\A c \in Conns : LoopMoved(c) =>
       \A v \in Payloads : InReadyAndUnacked(v)' = InReadyAndUnacked(v)]_vars

\* C2 (amended): every popped occurrence is in exactly one unacked list and
\* wrapped in exactly one Delivery, and no step of a consumption loop changes,
\* for any payload value, the number of occurrences in the delayed set, ready
\* and the unacked lists together (the migration pass of a loop moves due
\* entries of the delayed set into ready).
C2_LoopsKeepDelayedReadyAndUnacked ==
  /\ [](\A c \in Conns : UnackedMatchesDeliveries(c))
  /\ [](Cardinality(BufferedIds) = hist.deliveries)
  /\ [][\A c \in Conns : LoopMoved(c) =>
          \A v \in Payloads :
            InDelayed(v)' + InReadyAndUnacked(v)' = InDelayed(v) + InReadyAndUnacked(v)]_vars

\* both connections hold an occurrence of the same payload value in unacked,
\* each wrapped in a Delivery of its own buffer
C2_Witness ==
  \E v \in Payloads :
    /\ Count(unacked[1], v) >= 1 /\ Count(unacked[2], v) >= 1
    /\ loop[1].pc = "check" /\ loop[2].pc = "check"

\* ------------------------------------------------------ delayed publishing
Members(z) == {e.member : e \in z}

\* the migration pass of the loop of connection c
MigrationPass(c) == loop[c].pc = "migrate" /\ loop'[c].pc = "len"

\* the due time given by the most recent PublishOnDelay of payload p among the
\* calls whose payload has not been migrated yet
LatestDue(p) ==
  LET calls == SelectSeq(hist.pending, LAMBDA e : e[1] = p) IN Last(calls)[2]

\* what a pass at the current time does to a payload taken as due at time t
PassKeeps(p) == p \in Members(delayed') /\ Count(ready', p) = Count(ready, p)

PassMoves(p) == p \notin Members(delayed') /\ Count(ready', p) = Count(ready, p) + 1

\* C6 as stated: for every PublishOnDelay(P, T) whose P has not been migrated, a
\* pass before T (in unix seconds) keeps P delayed and out of ready, and a pass
\* at or after T moves it to ready, whatever other calls came in between.
C6_EveryDelayedCallKeepsItsDueTime ==
  [][MigrationPass(1) =>
       \A i \in DOMAIN hist.pending :
         IF Unix(now) < Unix(hist.pending[i][2])
           THEN PassKeeps(hist.pending[i][1])
           ELSE PassMoves(hist.pending[i][1])]_vars

\* C6 (amended): the same for the due time of the most recent PublishOnDelay of
\* the payload content P: a later PublishOnDelay of the same content replaces the
\* due time of the earlier one.
C6_LatestDelayedCallSetsDueTime ==
  [][MigrationPass(1) =>
       \A p \in {hist.pending[i][1] : i \in DOMAIN hist.pending} :
         IF Unix(now) < Unix(LatestDue(p)) THEN PassKeeps(p) ELSE PassMoves(p)]_vars

\* a pass has just moved a due payload into ready and left another, due later,
\* in the delayed set
C6_Witness ==
  /\ loop[1].pc = "len"
  /\ \E p, q \in Payloads :
       /\ hist.migrated[p] = 1 /\ hist.published[p] = 0
       /\ Count(ready, p) = 1 /\ p \notin Members(delayed)
       /\ \E e \in delayed : e.member = q /\ e.score > Unix(now)

\* ------------------------------------------------------------ the buffer
Started(c) == queue[c].deliveryChan # NIL

\* the buffer has room for what the loop still means to send in this iteration
BufferHasRoom(c) ==
  Started(c) =>
    /\ Len(queue[c].deliveryChan.buf) <= queue[c].prefetchLimit
    /\ loop[c].pc \in {"pop", "send"} =>
         Len(queue[c].deliveryChan.buf) + (loop[c].batchSize - loop[c].i)
           <= queue[c].deliveryChan.cap
    /\ loop[c].pc = "send" =>
         Len(queue[c].deliveryChan.buf) < queue[c].deliveryChan.cap

\* C7: the buffer never holds more than prefetchLimit deliveries, the loop's send
\* always finds a free slot, and an iteration that found the buffer full pops
\* nothing.
C7_BufferWithinPrefetchLimit ==
  /\ [](\A c \in Conns : BufferHasRoom(c))
  /\ [][\A c \in Conns :
          /\ loop[c].pc = "count"
          /\ loop[c].prefetchCount >= queue[c].prefetchLimit
          /\ LoopMoved(c)
          => loop'[c].pc = "check" /\ ready' = ready /\ unacked' = unacked]_vars

\* the loop finds the buffer full while payloads are ready
C7_Witness ==
  /\ loop[1].pc = "count"
  /\ queue[1].prefetchLimit >= 1
  /\ loop[1].prefetchCount = queue[1].prefetchLimit
  /\ Len(queue[1].deliveryChan.buf) = queue[1].prefetchLimit
  /\ ready # <<>>

\* ------------------------------------------------------------ stopping
\* C8: once the loop has exited after StopConsuming, it has closed the buffer.
C8_ExitedLoopClosedBuffer ==
  \A c \in Conns : loop[c].pc = "exited" => queue[c].deliveryChan.closed

\* C9: StopConsuming leaves the loop where it is; the loop exits only at the
\* check that ends an iteration, with the flag set; at most one iteration, with
\* at most prefetchLimit pops, begins after StopConsuming returned; an exited
\* loop never pops or migrates again.
C9_StopIsCooperative ==
  /\ [](\A c \in Conns :
          /\ loop[c].afterStop <= 1
          /\ loop[c].popsAfterStop <= queue[c].prefetchLimit)
  /\ [][\A c \in Conns :
          /\ StopConsuming(c) => loop' = loop
          /\ loop[c].pc # "exited" /\ loop'[c].pc = "exited"
               => loop[c].pc = "check" /\ queue[c].consumingStopped
          /\ loop[c].pc = "exited"
               => loop'[c] = loop[c] /\ ~Pop(c) /\ ~Migrate(c)]_vars

\* an iteration began after StopConsuming returned, popped, and the loop exited
C9_Witness ==
  /\ loop[1].pc = "exited"
  /\ loop[1].afterStop = 1
  /\ loop[1].popsAfterStop >= 1

\* C10: only the first StartConsuming of a queue object returns true and starts
\* a loop; every later one returns false and changes nothing, also after
\* StopConsuming; the prefetch limit, poll interval and buffer stay those of the
\* first call.
C10_StartConsumingOnce ==
  /\ [](\A c \in Conns : hist.started[c] <= 1 /\ (Started(c) <=> hist.started[c] = 1))
  /\ [][\A c \in Conns, n \in PrefetchLimits :
          StartConsuming(c, n, n + 1) =>
            IF hist.started[c] = 0
              THEN ret'.val = TRUE /\ hist'.started[c] = 1 /\ loop'[c].pc = "migrate"
              ELSE ret'.val = FALSE /\ hist' = hist /\ loop' = loop /\ queue' = queue]_vars
  /\ [][\A c \in Conns :
          Started(c) =>
            /\ queue'[c].prefetchLimit = queue[c].prefetchLimit
            /\ queue'[c].pollDuration = queue[c].pollDuration
            /\ queue'[c].deliveryChan.id = queue[c].deliveryChan.id
            /\ queue'[c].deliveryChan.cap = queue[c].deliveryChan.cap]_vars

\* a StartConsuming after StopConsuming has returned false
C10_Witness ==
  /\ ret = [op |-> "StartConsuming", val |-> FALSE]
  /\ queue[1].consumingStopped
  /\ hist.started[1] = 1

\* ------------------------------------------------------------ delivery order
\* c is p, or a prefix of p, with payloads of the bag m put in between
RECURSIVE IsMerge(_, _, _)
IsMerge(c, p, m) ==
  IF c = <<>> THEN TRUE
  ELSE \/ p # <<>> /\ Head(c) = Head(p) /\ IsMerge(Tail(c), Tail(p), m)
       \/ m[Head(c)] > 0 /\ IsMerge(Tail(c), p, [m EXCEPT ![Head(c)] = @ - 1])

\* C11: with one consuming connection and one single-delivery consumer, the
\* payloads passed to the callback are, in this order, the payloads Publish was
\* called with, oldest first, with the payloads that migration moved from the
\* delayed set into ready in between; without migrated payloads they are a prefix
\* of the published sequence.
C11_PublishedOrderKept ==
  LET passed == Payload(Flushed(consumer[1][1]))
  IN  /\ IsMerge(passed, hist.order, hist.migrated)
      /\ (\A v \in Payloads : hist.migrated[v] = 0) => IsPrefix(passed, hist.order)

\* the callback has been passed two published payloads of different content in
\* their order, and a migrated payload between them
C11_Witness ==
  LET passed == Payload(consumer[1][1].consumed)
  IN  /\ Len(passed) = 3 /\ Len(hist.order) = 2
      /\ hist.order[1] # hist.order[2]
      /\ passed[1] = hist.order[1] /\ passed[3] = hist.order[2]
      /\ Sum([v \in Payloads |-> hist.migrated[v]]) = 1

\* ------------------------------------------------- purge, return and close
\* the call op has returned and no other call has begun
Returned(op) == call.op = op /\ call.pc = "returned"

\* C12: after Close has returned, the ready list, the rejected list and the
\* delayed set are empty and the name is out of the registry, the unacked lists
\* are as before, and Close returned true exactly when the name was registered.
C12_CloseEmptiesOwnedLists ==
  Returned("Close") =>
    /\ ready = <<>> /\ rejected = <<>> /\ delayed = {}
    /\ ~registry
    /\ call.ok = call.before.registry
    /\ \A c \in Conns : unacked[c] = <<>>

\* what a purge of a list that held n items has done when it returns: it
\* returned n and made ceil(n / purgeBatchSize) trims of at most purgeBatchSize
\* items each, which removed n items together
Purged(n) ==
  /\ call.val = n
  /\ Len(call.removed) = (n + purgeBatchSize - 1) \div purgeBatchSize
  /\ \A i \in DOMAIN call.removed : call.removed[i] >= 1 /\ call.removed[i] <= purgeBatchSize
  /\ Sum(call.removed) = n

\* C13: PurgeReady on N ready items returns N, leaves ready empty and rejected as
\* it was, with ceil(N / 100) trims of at most 100 items each; PurgeRejected does
\* the same on the rejected list.
C13_PurgeTrimsInBatches ==
  /\ Returned("PurgeReady") =>
       ready = <<>> /\ rejected = call.before.rejected /\ Purged(Len(call.before.ready))
  /\ Returned("PurgeRejected") =>
       rejected = <<>> /\ ready = call.before.ready /\ Purged(Len(call.before.rejected))

\* PurgeReady has purged 250 items with trims of 100, 100 and 50
C13_Witness ==
  /\ Returned("PurgeReady")
  /\ call.val = 250
  /\ call.removed = <<100, 100, 50>>
  /\ ready = <<>>

\* C14: after PurgeDelayed has returned, the delayed set is empty, the call
\* returned the number of entries it held, and ready and rejected are as before.
C14_PurgeDelayedEmptiesDelayed ==
  Returned("PurgeDelayed") =>
    /\ delayed = {}
    /\ call.val = Cardinality(call.before.delayed)
    /\ ready = call.before.ready
    /\ rejected = call.before.rejected

\* C15: after ReturnAllRejected has returned, on a rejected list of N payloads,
\* it returned N, rejected is empty, ready is longer by N, and ready holds every
\* payload value as often as ready and rejected held it together before.
C15_ReturnAllRejectedMovesAll ==
  Returned("ReturnAllRejected") =>
    /\ call.val = Len(call.before.rejected)
    /\ rejected = <<>>
    /\ Len(ready) = Len(call.before.ready) + Len(call.before.rejected)
    /\ \A v \in Payloads :
         Count(ready, v) = Count(call.before.ready, v) + Count(call.before.rejected, v)

\* ReturnAllRejected has moved rejected payloads of different content to a ready
\* list that held a payload
C15_Witness ==
  /\ Returned("ReturnAllRejected")
  /\ call.val >= 2
  /\ call.before.ready # <<>>
  /\ \E i, j \in DOMAIN call.before.rejected :
       call.before.rejected[i] # call.before.rejected[j]

\* C20: ReturnRejected(count) on a rejected list of N payloads returns the number
\* of payloads it moved to ready, which is min(count, N); it moves the oldest
\* rejected payloads, at the right end, and leaves the others in place.
C20_ReturnRejectedReturnsMoved ==
  Returned("ReturnRejected") =>
    LET n == Len(call.before.rejected)
        moved == n - Len(rejected)
    IN  /\ call.val = moved
        /\ moved = Min(call.arg, n)
        /\ rejected = SubSeq(call.before.rejected, 1, n - moved)
        /\ Len(ready) = Len(call.before.ready) + moved
        /\ \A v \in Payloads :
             Count(ready, v) = Count(call.before.ready, v)
               + Count(SubSeq(call.before.rejected, n - moved + 1, n), v)

\* ------------------------------------------------------------ store errors
\* what the list or set of a count accessor held when it was called
Counted(op) ==
  CASE op = "ReadyCount" -> Len(call.before.ready)
    [] op = "UnackedCount" -> Len(call.before.unacked)
    [] op = "RejectedCount" -> Len(call.before.rejected)
    [] op = "DelayedCount" -> Cardinality(call.before.delayed)

\* the store lists and the registry
store == <<ready, delayed, unacked, rejected, registry>>

\* a step of the call op
Calls(ops) == call' # call /\ call'.op \in ops

\* C16 as stated: a count accessor whose store command fails returns 0 and the
\* process goes on.
C16_CountReturnsZeroOnError ==
  call.op \in CountOps /\ call.err # "ok" => call.pc = "returned" /\ call.val = 0

\* C16 (amended): a count accessor returns the length the store replies; it
\* returns 0 for the reply redis.Nil; for any other error it panics and returns
\* nothing; in no case does it change the store.
C16_CountPanicsOnError ==
  /\ [](call.op \in CountOps =>
          /\ call.err = "ok" => call.pc = "returned" /\ call.val = Counted(call.op)
          /\ call.err = "nil" => call.pc = "returned" /\ call.val = 0
          /\ call.err = "err" => call.pc = "panic")
  /\ [][Calls(CountOps) => store' = store]_vars

\* ReadyCount has panicked on a store error while ready held payloads
C16_Witness ==
  /\ call.op = "ReadyCount"
  /\ call.pc = "panic"
  /\ call.err = "err"
  /\ ready # <<>>

\* C17 as stated: Publish returns true exactly when it appended the payload, and
\* on a store failure it returns false and leaves ready as it was.
C17_PublishReturnsFalseOnError ==
  call.op = "Publish" =>
    /\ call.pc = "returned"
    /\ call.ok = (call.err = "ok")

\* C17 (amended): Publish returns true exactly when it appended the payload at
\* the left of ready; it returns false, with ready unchanged, only for the reply
\* redis.Nil; for any other store error it panics, with ready unchanged.
C17_PublishPanicsOnError ==
  /\ [](call.op = "Publish" =>
          /\ call.err = "ok" => call.pc = "returned" /\ call.ok
          /\ call.err = "nil" => call.pc = "returned" /\ ~call.ok
          /\ call.err = "err" => call.pc = "panic")
  /\ [][Calls({"Publish"}) =>
          /\ delayed' = delayed /\ unacked' = unacked
          /\ rejected' = rejected /\ registry' = registry
          /\ ready' = IF call'.pc = "returned" /\ call'.ok
                        THEN <<call'.arg>> \o ready
                        ELSE ready]_vars

\* a Publish has panicked on a store error after an earlier one had appended
\* its payload
C17_Witness ==
  /\ call.op = "Publish"
  /\ call.pc = "panic"
  /\ hist.calls >= 1
  /\ ready # <<>>

\* ------------------------------------------------------ delayed conservation
\* how many entries migration has appended to ready
Migrated == Sum([v \in Payloads |-> hist.migrated[v]])

\* a migration pass of connection 1 at or after the due time of every
\* PublishOnDelay call made so far
PassAfterEveryDue == MigrationPass(1) /\ Unix(hist.due) <= Unix(now)

\* C19 as stated: after k PublishOnDelay calls and a migration pass at or after
\* every due time, migration has appended exactly k entries to ready and the
\* delayed set is empty.
C19_EveryDelayedCallMigrates ==
  [][PassAfterEveryDue => delayed' = {} /\ Migrated' = hist.delayCalls]_vars

\* C19 (amended): a PublishOnDelay of a payload that is in the delayed set does
\* not add an entry (it moves the due time of the one there); with m such calls
\* among k, the delayed set and the entries migrated so far are k - m together,
\* and after a migration pass at or after every due time migration has appended
\* exactly k - m entries to ready and the delayed set is empty.
C19_DelayedCallsMigrateUnlessMerged ==
  /\ [](Cardinality(delayed) + Migrated = hist.delayCalls - hist.merged)
  /\ [][PassAfterEveryDue =>
          delayed' = {} /\ Migrated' = hist.delayCalls - hist.merged]_vars

\* two PublishOnDelay calls of equal content have both been migrated, the first
\* before the second was made
C19_Witness ==
  /\ loop[1].pc = "len"
  /\ delayed = {}
  /\ hist.delayCalls = 2
  /\ hist.merged = 0
  /\ \E v \in Payloads : hist.migrated[v] = 2 /\ Count(ready, v) = 2

\* ------------------------------------------------------ the unacked bound
\* the consumers attached to the queue object of connection c
Attached(c) == Cardinality({k \in Slots : consumer[c][k].kind # "none"})

\* C18: with consumers that ack every delivery before their callback returns,
\* the unacked list of a connection never holds more than prefetchLimit + the
\* number of attached consumers.
C18_UnackedWithinPrefetchPlusConsumers ==
  \A c \in Conns : Len(unacked[c]) <= queue[c].prefetchLimit + Attached(c)

====
